---- MODULE Spec2Model ----
(***************************************************************************)
(* Model of scripts/search.py of the Google AI Mode skill: the CAPTCHA     *)
(* detector detect_captcha, the scrape state machine of GoogleAIScraper    *)
(* and the citation embedder _embed_citations.                             *)
(*                                                                         *)
(* Python strings are modelled as sequences of pieces.  A piece is an      *)
(* atomic fragment of text (a phrase, a word, a digit, a bracket); the     *)
(* substring test `a in b` is containment of piece sequences, lower() is   *)
(* applied piece by piece and len() is the sum of the pieces' lengths.     *)
(***************************************************************************)
EXTENDS Integers, Sequences, FiniteSets, TLC

VARIABLES
    \* ---- detect_captcha applied to one page observation
    dpc,            \* "in" before the call, "out" after it
    dReads,         \* what the four kinds of page reads give
    dOut,           \* what detect_captcha returned
    \* ---- GoogleAIScraper.scrape
    pc,             \* position in scrape: goto, detect, wait, harvest, done;
                    \* evaluate: in page.evaluate while the script runs
    headless,       \* self.headless
    pageClosed,     \* the page / browser has been closed
    pageUrl,        \* the address the page is on
    pageBody,       \* the visible body text of the page
    pageSel,        \* what the three CAPTCHA selectors find on the page
    i,              \* loop variable of the readiness loop
    ai_ready,       \* ai_ready of scrape
    detected,       \* "none", or what detect_captcha(self.page) returned
    result,         \* the dictionary scrape returns
    polls,          \* number of body reads made by the readiness loop
    harvestCalls,   \* number of page.evaluate(DOM_INJECTION_SCRIPT) calls
    opOnClosed,     \* a page operation of scrape met the closed page
    endStage,       \* the stage in which scrape returned
    \* ---- GoogleAIScraper._embed_citations
    epc,            \* "in" before the call, "out" after it
    markdown,       \* argument markdown
    citations,      \* argument citations
    embTrace,       \* (modified_md, citation_sources) after each iteration
    embOut,         \* the returned pair
    \* ---- the post-processing of scrape (Text Cleanup)
    pIn,            \* the converted text the first pass started from
    pDoc,           \* the document: the text after the passes made so far
    pRuns,          \* number of post-processing passes made
    pCut,           \* the text before and after the cut-off loop of the last pass
    bpc,            \* position of the run that appends the sources section
    bMd,            \* the text returned by _embed_citations
    bSources,       \* the sources returned by _embed_citations
    bOut,           \* the markdown of the result
    spc,            \* position of main between GoogleAIScraper(...) and its exit
    selfPw,         \* self.pw is set
    selfCtx,        \* self.ctx is set
    selfPage,       \* self.page is set
    sOutcome,       \* how the try block of main was left
    sExit,          \* the exit code of main
    stopCalls,      \* number of calls of scraper.stop()
    tried,          \* the closing calls stop() has made
    raised,         \* the closing calls of stop() that raised
    \* ---- DOM_INJECTION_SCRIPT, run by page.evaluate
    hpc,            \* position in the script: start, loop, click, wait,
                    \* settle, extract, returned
    mainCol,        \* the page has [data-container-id="main-col"]
    buttons,        \* the "Zugehörige Links" buttons of the answer
    bi,             \* index of the button the for loop is at
    markerIndex,    \* markerIndex
    markerId,       \* markerId of the current iteration
    hdom,           \* the content of the answer: buttons and inserted markers
    panel,          \* the links rhs-col shows, and the click that put them there
    pending,        \* the click whose links the page has yet to show, or 0
    beforeCount,    \* beforeCount
    waited,         \* Date.now() - startTime, in ms
    allCitations,   \* allCitations
    readFrom,       \* for each group: its button, whether the button was
                    \* clicked, and the click whose links the panel showed
                    \* when the group was extracted
    clicks,         \* the buttons clicked, in order
    hret,           \* what page.evaluate gives to scrape
    \* ---- the navigation address of scrape
    upc,            \* "in" before the address is built, "out" after it
    navQuery,       \* argument query of scrape
    navUrl,         \* url of scrape
    \* ---- main
    mpc,            \* position in main: start, scrape, exited
    exitCode,       \* the exit code of the process, -1 while it runs
    sigint,         \* a KeyboardInterrupt was raised during the run
    unexpected      \* an exception reached `except Exception` of main

detVars == <<dpc, dReads, dOut>>
pageVars == <<pageClosed, pageUrl, pageBody, pageSel>>
scrapeVars == <<pc, headless, i, ai_ready, detected, result, polls,
                harvestCalls, opOnClosed, endStage>>
embVars == <<epc, markdown, citations, embTrace, embOut>>
postVars == <<pIn, pDoc, pRuns, pCut>>
harvVars == <<hpc, mainCol, buttons, bi, markerIndex, markerId, hdom, panel,
              pending, beforeCount, waited, allCitations, readFrom, clicks, hret>>
urlVars == <<upc, navQuery, navUrl>>
mainVars == <<mpc, exitCode, sigint, unexpected>>
cliVars == <<urlVars, mainVars>>
bibVars == <<bpc, bMd, bSources, bOut>>
stopVars == <<spc, selfPw, selfCtx, selfPage, sOutcome, sExit, stopCalls, tried, raised>>
restVars == <<postVars, harvVars, cliVars, bibVars, stopVars>>
vars == <<detVars, pageVars, scrapeVars, embVars, restVars>>

(***************************************************************************)
(* Bounds of the model.                                                    *)
(***************************************************************************)
MaxBodyLen == 2     \* pieces in a body text handed to detect_captcha
MaxSegs == 3        \* segments in a text handed to _embed_citations
MaxGroups == 2      \* citation groups handed to _embed_citations
MaxLines == 3       \* lines of a text handed to the post-processing
MaxTriggers == 2    \* "Zugehörige Links" buttons in the main container
MaxQueryLen == 3    \* characters of a query handed to scrape

(***************************************************************************)
(* Strings as sequences of pieces.                                         *)
(***************************************************************************)
\* Python `sub in s`
Contains(s, sub) ==
    \E k \in 0..(Len(s) - Len(sub)) : SubSeq(s, k + 1, k + Len(sub)) = sub

\* str.lower() of one piece
LowerPiece(p) ==
    CASE p = "UNUSUAL" -> "unusual"
      [] p = "Our systems have detected" -> "our systems have detected"
      [] p = "Über diese Seite" -> "über diese seite"
      [] p = "Target closed" -> "target closed"
      [] p = "Target page, context or " -> "target page, context or "
      [] p = "Timeout 30000ms exceeded" -> "timeout 30000ms exceeded"
      [] p = "AI Overview" -> "ai overview"
      [] p = "AI-generated" -> "ai-generated"
      [] p = "KI-Antworten" -> "ki-antworten"
      [] OTHER -> p

\* str.lower()
Lower(s) == [k \in 1..Len(s) |-> LowerPiece(s[k])]

\* number of characters of one piece; "filler" is a block of 593 characters
\* of neutral text, "ws" a run of 600 whitespace characters
PieceLen(p) ==
    CASE p = "filler" -> 593
      [] p = "ws" -> 600
      [] p = "unusual" -> 7
      [] p = "UNUSUAL" -> 7
      [] p = " traffic" -> 8
      [] p = "captcha" -> 7
      [] p = "Our systems have detected" -> 25
      [] p = "ungewöhnlichen datenverkehr" -> 27
      [] p = "unsere systeme haben" -> 20
      [] p = "Über diese Seite" -> 16
      [] OTHER -> 12

RECURSIVE TextLen(_)
\* len(s)
TextLen(s) == IF s = <<>> THEN 0 ELSE PieceLen(Head(s)) + TextLen(Tail(s))

\* the pieces that are whitespace: a run of blanks, a space, a line break
IsSpace(x) == x \in {"ws", " ", "\n"}

RECURSIVE LStrip(_)
LStrip(s) == IF s # <<>> /\ IsSpace(Head(s)) THEN LStrip(Tail(s)) ELSE s

RECURSIVE RStrip(_)
RStrip(s) ==
    IF s # <<>> /\ IsSpace(s[Len(s)]) THEN RStrip(SubSeq(s, 1, Len(s) - 1)) ELSE s

\* str.strip()
Strip(s) == RStrip(LStrip(s))

(***************************************************************************)
(* detect_captcha.  A page read either gives a value or raises; a layer    *)
(* evaluates to "match" (it returns True), "nomatch" (it falls through) or *)
(* "raise" (an exception leaves the body of its try block).                *)
(***************************************************************************)
ReadOk(v) == [ok |-> TRUE, val |-> v]
ReadFail == [ok |-> FALSE, val |-> <<>>]

unusual_traffic_indicators ==
    { <<"unusual", " traffic">>,
      <<"ungewöhnlichen datenverkehr">>,
      <<"unsere systeme haben">>,
      <<"our systems have detected">> }

captcha_selectors == <<"div#recaptcha", "iframe[src*=recaptcha]", "[id*=captcha]">>

\* a try block whose handler is `except: pass`, without the handler
TryExceptMissing(o) == o

\* a try block whose handler is `except: pass`
TryExcept(o) == IF o = "raise" THEN "nomatch" ELSE o

\* LAYER 1 with only the second test of the address
Layer1HostOnly(url) ==
    IF ~url.ok THEN "raise"
    ELSE IF Contains(url.val, <<"google.com", "/sorry">>)
         THEN "match" ELSE "nomatch"

\* LAYER 1: URL-Check
Layer1(url) ==
    IF ~url.ok THEN "raise"
    ELSE IF \/ Contains(url.val, <<"/sorry", "/index">>)
            \/ Contains(url.val, <<"google.com", "/sorry">>)
         THEN "match" ELSE "nomatch"

\* LAYER 2 testing body instead of body_lower
Layer2CaseSensitive(body) ==
    IF ~body.ok THEN "raise"
    ELSE IF \E indicator \in unusual_traffic_indicators :
                Contains(body.val, indicator)
         THEN "match" ELSE "nomatch"

\* LAYER 2: Text-Check
Layer2(body) ==
    IF ~body.ok THEN "raise"
    ELSE LET body_lower == Lower(body.val)
         IN  IF \E indicator \in unusual_traffic_indicators :
                    Contains(body_lower, indicator)
             THEN "match" ELSE "nomatch"

\* LAYER 3 with the threshold test `body_length <= 600`
Layer3OffByOne(body) ==
    IF ~body.ok THEN "raise"
    ELSE LET body_length == TextLen(Strip(body.val))
             body_lower == Lower(body.val)
         IN  IF /\ body_length <= 600
                /\ \/ Contains(body_lower, <<"captcha">>)
                   \/ Contains(body_lower, <<"unusual">>)
                   \/ Contains(body_lower, <<"über diese seite">>)
             THEN "match" ELSE "nomatch"

\* LAYER 3: Length-Check
Layer3(body) ==
    IF ~body.ok THEN "raise"
    ELSE LET body_length == TextLen(Strip(body.val))
             body_lower == Lower(body.val)
         IN  IF /\ body_length < 600
                /\ \/ Contains(body_lower, <<"captcha">>)
                   \/ Contains(body_lower, <<"unusual">>)
                   \/ Contains(body_lower, <<"über diese seite">>)
             THEN "match" ELSE "nomatch"

\* page.query_selector(selector) inside `if`: "found", "none" or "raise"
QuerySelector(o) ==
    IF o = "raise" THEN "raise" ELSE IF o = "found" THEN "match" ELSE "nomatch"

RECURSIVE Legacy(_, _)
\* LEGACY: the loop over captcha_selectors, from the k-th selector on
Legacy(sel, k) ==
    IF k > Len(captcha_selectors) THEN "nomatch"
    ELSE LET o == TryExcept(QuerySelector(sel[k]))
         IN  IF o = "nomatch" THEN Legacy(sel, k + 1) ELSE o

\* detect_captcha(page): the layers in order, the first that does not fall
\* through decides
detect_captcha(rd) ==
    LET o1 == TryExcept(Layer1(rd.url))
        o2 == TryExcept(Layer2(rd.body2))
        o3 == TryExcept(Layer3(rd.body3))
        o4 == Legacy(rd.sel, 1)
        o  == IF o1 # "nomatch" THEN o1
              ELSE IF o2 # "nomatch" THEN o2
              ELSE IF o3 # "nomatch" THEN o3
              ELSE o4
    IN  [raised |-> (o = "raise"), value |-> (o = "match")]

(***************************************************************************)
(* The page observations detect_captcha is applied to.                     *)
(***************************************************************************)
UrlBlank == <<"about:blank">>
UrlSearch == <<"https://www.", "google.com", "/search", "?udm=50&q=", "query">>
UrlSorryIndex == <<"https://www.", "google.com", "/sorry", "/index", "?continue=">>
UrlSorryIndexDe == <<"https://www.", "google.de", "/sorry", "/index", "?continue=">>
UrlSorryOnly == <<"https://www.", "google.com", "/sorry", "?continue=">>
UrlSorryOnlyDe == <<"https://www.", "google.de", "/sorry", "?continue=">>
Urls == {UrlSearch, UrlSorryIndex, UrlSorryIndexDe, UrlSorryOnly, UrlSorryOnlyDe}

BodyPieces ==
    { "unusual", "UNUSUAL", " traffic", "captcha", "Our systems have detected",
      "ungewöhnlichen datenverkehr", "unsere systeme haben", "Über diese Seite",
      "filler", "ws" }

SeqsUpTo(S, n) == UNION { [1..k -> S] : k \in 0..n }

Bodies == SeqsUpTo(BodyPieces, MaxBodyLen)

SelOutcomes == [1..3 -> {"found", "none", "raise"}]

NoOut == [raised |-> FALSE, value |-> FALSE]

DetectInit ==
    /\ dpc = "in"
    /\ \E u \in Urls, b \in Bodies, fu \in BOOLEAN, f2 \in BOOLEAN, f3 \in BOOLEAN :
          \E s \in SelOutcomes :
             dReads = [url   |-> IF fu THEN ReadFail ELSE ReadOk(u),
                       body2 |-> IF f2 THEN ReadFail ELSE ReadOk(b),
                       body3 |-> IF f3 THEN ReadFail ELSE ReadOk(b),
                       sel   |-> s,
                       page  |-> [url |-> u, body |-> b]]
    /\ dOut = NoOut

\* one call of detect_captcha
DetectApply ==
    /\ dpc = "in"
    /\ dpc' = "out"
    /\ dOut' = detect_captcha(dReads)
    /\ UNCHANGED <<dReads, pageVars, scrapeVars, embVars, restVars>>

(***************************************************************************)
(* GoogleAIScraper.scrape.  The suspension points are the page operations: *)
(* page.goto, the reads of detect_captcha, each page.inner_text of the     *)
(* readiness loop and page.evaluate.  The page is closed by its user or by *)
(* the browser at any moment (ClosePage) and changes its content while     *)
(* scrape waits (PageUpdate).                                              *)
(***************************************************************************)
ai_wait_timeout == 300

\* the messages of the exceptions the page operations raise on a closed page
ClosedMsgs ==
    { <<"Target page, context or ", "browser has been closed">>,
      <<"Target closed">> }

\* the message of an exception raised for another reason
OtherMsgs == { <<"Timeout 30000ms exceeded">> }

\* "browser has been closed" in str(e).lower() or "target closed" in str(e).lower()
IsClosedError(e) ==
    \/ Contains(Lower(e), <<"browser has been closed">>)
    \/ Contains(Lower(e), <<"target closed">>)

NoResult == [success |-> FALSE, error |-> "none"]
BrowserClosed == [success |-> FALSE, error |-> "BROWSER_CLOSED_BY_USER"]
CaptchaRequired == [success |-> FALSE, error |-> "CAPTCHA_REQUIRED"]
Failure(kind) == [success |-> FALSE, error |-> kind]
Success == [success |-> TRUE, error |-> "none"]

\* the body of the except handlers of page.goto and page.evaluate
ExceptResult(e, kind) == IF IsClosedError(e) THEN BrowserClosed ELSE Failure(kind)

\* 'KI-Antworten' in body or 'AI-generated' in body or 'AI Overview' in body
HasAiMarker(body) ==
    \/ Contains(body, <<"KI-Antworten">>)
    \/ Contains(body, <<"AI-generated">>)
    \/ Contains(body, <<"AI Overview">>)

NoWidget == <<"none", "none", "none">>
AllRaise == <<"raise", "raise", "raise">>

\* the pages the search address leads to
PageAnswer == [url |-> UrlSearch, body |-> <<"filler", "AI Overview">>, sel |-> NoWidget]
PagePending == [url |-> UrlSearch, body |-> <<"filler">>, sel |-> NoWidget]
PageOtherLocale == [url |-> UrlSearch, body |-> <<"filler", "ai overview">>, sel |-> NoWidget]
PageSorry ==
    [url |-> UrlSorryIndex,
     body |-> <<"Our systems have detected", "unusual", " traffic">>,
     sel |-> <<"none", "none", "found">>]
PageWidget == [url |-> UrlSearch, body |-> <<"filler">>, sel |-> <<"found", "none", "none">>]
ScrapePages == {PageAnswer, PagePending, PageOtherLocale, PageSorry, PageWidget}

CurrentPage == [url |-> pageUrl, body |-> pageBody, sel |-> pageSel]

ShowPage(p) ==
    /\ pageUrl' = p.url
    /\ pageBody' = p.body
    /\ pageSel' = p.sel

\* `return r` of scrape
Return(r, stage) ==
    /\ pc' = "done"
    /\ result' = r
    /\ endStage' = stage

ScrapeInit ==
    /\ pc = "goto"
    /\ headless \in BOOLEAN
    /\ pageClosed = FALSE
    /\ pageUrl = UrlBlank
    /\ pageBody = <<>>
    /\ pageSel = NoWidget
    /\ i = 0
    /\ ai_ready = FALSE
    /\ detected = "none"
    /\ result = NoResult
    /\ polls = 0
    /\ harvestCalls = 0
    /\ opOnClosed = FALSE
    /\ endStage = "none"

\* self.page.goto(url, ...) and its except handler
Goto ==
    /\ pc = "goto"
    /\ opOnClosed' = (opOnClosed \/ pageClosed)
    /\ \/ /\ pageClosed
          /\ \E e \in ClosedMsgs : Return(ExceptResult(e, "Page load timeout"), "goto")
          /\ UNCHANGED <<pageUrl, pageBody, pageSel>>
       \/ /\ ~pageClosed
          /\ \E e \in OtherMsgs : Return(ExceptResult(e, "Page load timeout"), "goto")
          /\ UNCHANGED <<pageUrl, pageBody, pageSel>>
       \/ /\ ~pageClosed
          /\ \E p \in ScrapePages : ShowPage(p)
          /\ pc' = "detect"
          /\ UNCHANGED <<result, endStage>>
    /\ UNCHANGED <<pageClosed, headless, i, ai_ready, detected, polls, harvestCalls,
                   detVars, embVars, restVars>>

\* what the reads of detect_captcha give on the page as it is: a read fails
\* for a transient reason or because the page is closed; page.url is kept by
\* the page object and is still readable after the page was closed
PageReads(fu, f2, f3, fs) ==
    [url   |-> IF fu THEN ReadFail ELSE ReadOk(pageUrl),
     body2 |-> IF f2 \/ pageClosed THEN ReadFail ELSE ReadOk(pageBody),
     body3 |-> IF f3 \/ pageClosed THEN ReadFail ELSE ReadOk(pageBody),
     sel   |-> IF fs \/ pageClosed THEN AllRaise ELSE pageSel]

\* the CAPTCHA check in interactive mode answering like headless mode
CaptchaCheckAlwaysError(d) ==
    IF d.raised THEN Return(Failure("exception"), "detect")
    ELSE IF d.value
         THEN Return(CaptchaRequired, "detect")
         ELSE pc' = "wait" /\ UNCHANGED <<result, endStage>>

\* if detect_captcha(self.page): if self.headless: return {...CAPTCHA_REQUIRED}
CaptchaCheck(d) ==
    IF d.raised THEN Return(Failure("exception"), "detect")
    ELSE IF d.value /\ headless
         THEN Return(CaptchaRequired, "detect")
         ELSE pc' = "wait" /\ UNCHANGED <<result, endStage>>

\* CAPTCHA CHECK (nach page load)
Detect ==
    /\ pc = "detect"
    /\ opOnClosed' = (opOnClosed \/ pageClosed)
    /\ \E fu \in BOOLEAN, f2 \in BOOLEAN, f3 \in BOOLEAN, fs \in BOOLEAN :
          LET d == detect_captcha(PageReads(fu, f2, f3, fs))
          IN  /\ detected' = IF d.value THEN "yes" ELSE "no"
              /\ CaptchaCheck(d)
    /\ UNCHANGED <<pageVars, headless, i, ai_ready, polls, harvestCalls,
                   detVars, embVars, restVars>>

\* the readiness loop returning an error when its budget is used up
NextIterationHardTimeout ==
    /\ i' = i + 1
    /\ IF i + 1 = ai_wait_timeout
       THEN Return(Failure("AI content timeout"), "wait") /\ UNCHANGED ai_ready
       ELSE pc' = "wait" /\ UNCHANGED <<ai_ready, result, endStage>>

\* end of one iteration of the readiness loop: time.sleep(1), next i
NextIteration ==
    /\ i' = i + 1
    /\ pc' = IF i + 1 = ai_wait_timeout THEN "harvest" ELSE "wait"
    /\ UNCHANGED <<ai_ready, result, endStage>>

\* the except handler of the readiness loop without its return
PollExceptSwallow(e) == NextIteration

\* the except handler of the readiness loop
PollExcept(e) ==
    IF IsClosedError(e)
    THEN Return(BrowserClosed, "wait") /\ UNCHANGED <<i, ai_ready>>
    ELSE NextIteration

\* one iteration of `for i in range(ai_wait_timeout)`; i counts the
\* iterations that ran to their end
Poll ==
    /\ pc = "wait"
    /\ i < ai_wait_timeout
    /\ polls' = polls + 1
    /\ opOnClosed' = (opOnClosed \/ pageClosed)
    /\ \/ /\ pageClosed
          /\ \E e \in ClosedMsgs : PollExcept(e)
       \/ /\ ~pageClosed
          /\ \E e \in OtherMsgs : PollExcept(e)
       \/ /\ ~pageClosed
          /\ IF HasAiMarker(pageBody)
             THEN /\ ai_ready' = TRUE
                  /\ pc' = "harvest"
                  /\ UNCHANGED <<i, result, endStage>>
             ELSE NextIteration
    /\ UNCHANGED <<pageVars, headless, detected, harvestCalls, detVars, embVars, restVars>>

\* the script injected while the readiness loop is still running
HarvestBeforeReady ==
    /\ pc \in {"wait", "harvest"}
    /\ harvestCalls' = harvestCalls + 1
    /\ opOnClosed' = (opOnClosed \/ pageClosed)
    /\ \/ /\ pageClosed
          /\ \E e \in ClosedMsgs : Return(ExceptResult(e, "JS Injection failed"), "harvest")
       \/ /\ ~pageClosed
          /\ Return(Success, "harvest")
    /\ UNCHANGED <<pageVars, headless, i, ai_ready, detected, polls, detVars, embVars, restVars>>

\* data = self.page.evaluate(DOM_INJECTION_SCRIPT), its except handler, the
\* test of data['error'] and the rest of scrape, which reads the page no more
Harvest ==
    /\ pc = "harvest"
    /\ harvestCalls' = harvestCalls + 1
    /\ opOnClosed' = (opOnClosed \/ pageClosed)
    /\ \/ /\ pageClosed
          /\ \E e \in ClosedMsgs : Return(ExceptResult(e, "JS Injection failed"), "harvest")
       \/ /\ ~pageClosed
          /\ \E e \in OtherMsgs : Return(ExceptResult(e, "JS Injection failed"), "harvest")
       \/ /\ ~pageClosed
          /\ Return(Failure("main-col not found (AI Overview missing?)"), "harvest")
       \/ /\ ~pageClosed
          /\ Return(Success, "harvest")
    /\ UNCHANGED <<pageVars, headless, i, ai_ready, detected, polls, detVars, embVars, restVars>>

\* the user or the browser closes the page while scrape runs
ClosePage ==
    /\ pc # "done"
    /\ ~pageClosed
    /\ pageClosed' = TRUE
    /\ UNCHANGED <<pageUrl, pageBody, pageSel, scrapeVars, detVars, embVars, restVars>>

\* the page changes while scrape waits: the answer arrives, the CAPTCHA is
\* solved or shown
PageUpdate ==
    /\ pc = "wait"
    /\ ~pageClosed
    /\ \E p \in ScrapePages : p # CurrentPage /\ ShowPage(p)
    /\ UNCHANGED <<pageClosed, scrapeVars, detVars, embVars, restVars>>

(***************************************************************************)
(* GoogleAIScraper._embed_citations.  The pieces of its texts are words,   *)
(* the opener "[CITE-" of a marker, "[" , "]" and decimal digits.          *)
(***************************************************************************)
Digit(n) == <<"0", "1", "2", "3", "4", "5", "6", "7", "8", "9">>[n + 1]

IsDigit(x) == x \in {"0", "1", "2", "3", "4", "5", "6", "7", "8", "9"}

RECURSIVE ToDigits(_)
\* str(n) of a natural number
ToDigits(n) == IF n < 10 THEN <<Digit(n)>> ELSE ToDigits(n \div 10) \o <<Digit(n % 10)>>

\* f'[CITE-{marker_id}]'
Marker(marker_id) == <<"[CITE-">> \o ToDigits(marker_id) \o <<"]">>

\* the footnote string numbered from start_idx instead of start_idx + 1
FootnotesFromZero(start_idx, n) ==
    LET f[m \in 0..n] ==
            IF m = 0 THEN <<>>
            ELSE f[m - 1] \o <<"[">> \o ToDigits(start_idx + m - 1) \o <<"]">>
    IN  f[n]

RECURSIVE Footnotes(_, _)
\* ''.join(f'[{start_idx + i + 1}]' for i in range(n))
Footnotes(start_idx, n) ==
    IF n = 0 THEN <<>>
    ELSE Footnotes(start_idx, n - 1) \o <<"[">> \o ToDigits(start_idx + n) \o <<"]">>

\* s.replace(sub, rep, 1)
ReplaceFirst(s, sub, rep) ==
    IF ~Contains(s, sub) THEN s
    ELSE LET k == CHOOSE k \in 0..(Len(s) - Len(sub)) :
                      /\ SubSeq(s, k + 1, k + Len(sub)) = sub
                      /\ \A j \in 0..(k - 1) : SubSeq(s, j + 1, j + Len(sub)) # sub
         IN  SubSeq(s, 1, k) \o rep \o SubSeq(s, k + Len(sub) + 1, Len(s))

RECURSIVE DigitsEnd(_, _)
\* the position after the longest run of digits that starts at position p
DigitsEnd(s, p) == IF p <= Len(s) /\ IsDigit(s[p]) THEN DigitsEnd(s, p + 1) ELSE p

\* the regular expression \[CITE-\d+\] matches at position p of s
MarkerAt(s, p) ==
    /\ s[p] = "[CITE-"
    /\ DigitsEnd(s, p + 1) > p + 1
    /\ DigitsEnd(s, p + 1) <= Len(s)
    /\ s[DigitsEnd(s, p + 1)] = "]"

RECURSIVE SweepFrom(_, _)
\* re.sub(r'\[CITE-\d+\]', '', s), scanning from position p
SweepFrom(s, p) ==
    IF p > Len(s) THEN <<>>
    ELSE IF MarkerAt(s, p) THEN SweepFrom(s, DigitsEnd(s, p + 1) + 1)
    ELSE <<s[p]>> \o SweepFrom(s, p + 1)

\* the place of x in a list sorted by descending marker_id: after the
\* elements with a larger key, before those with an equal or smaller one
InsertDesc(x, sorted) ==
    LET n == Cardinality({k \in 1..Len(sorted) : sorted[k].marker_id > x.marker_id})
    IN  SubSeq(sorted, 1, n) \o <<x>> \o SubSeq(sorted, n + 1, Len(sorted))

RECURSIVE SortDesc(_)
\* sorted(citations, key=lambda c: c.get('marker_id', 999), reverse=True)
SortDesc(c) == IF c = <<>> THEN <<>> ELSE InsertDesc(Head(c), SortDesc(Tail(c)))

\* one iteration of the loop with citation_sources.extend outside the
\* test of the marker
EmbedIterExtendAlways(st, citation) ==
    IF citation.sources # <<>>
    THEN LET start_idx == Len(st.sources)
             footnotes == Footnotes(start_idx, Len(citation.sources))
             marker == Marker(citation.marker_id)
         IN  [md |-> ReplaceFirst(st.md, marker, footnotes),
              sources |-> st.sources \o citation.sources]
    ELSE st

\* one iteration of `for citation in citations_sorted`
EmbedIter(st, citation) ==
    IF citation.sources # <<>>
    THEN LET start_idx == Len(st.sources)
             footnotes == Footnotes(start_idx, Len(citation.sources))
             marker == Marker(citation.marker_id)
         IN  IF Contains(st.md, marker)
             THEN [md |-> ReplaceFirst(st.md, marker, footnotes),
                   sources |-> st.sources \o citation.sources]
             ELSE st
    ELSE st

RECURSIVE EmbedLoop(_, _, _)
\* modified_md and citation_sources after the first k iterations
EmbedLoop(md, citations_sorted, k) ==
    IF k = 0 THEN [md |-> md, sources |-> <<>>]
    ELSE EmbedIter(EmbedLoop(md, citations_sorted, k - 1), citations_sorted[k])

\* _embed_citations(self, markdown, citations)
_embed_citations(md, cits) ==
    LET citations_sorted == SortDesc(cits)
        st == EmbedLoop(md, citations_sorted, Len(citations_sorted))
    IN  [md |-> SweepFrom(st.md, 1), sources |-> st.sources]

(***************************************************************************)
(* The texts and citation groups _embed_citations is applied to.           *)
(***************************************************************************)
SrcA == [title |-> "A", url |-> "https://a.example/"]
SrcB == [title |-> "B", url |-> "https://b.example/"]
SrcC == [title |-> "C", url |-> "https://c.example/"]
SourceLists == { <<>>, <<SrcA>>, <<SrcB, SrcC>> }

MarkerIds == 0..(MaxGroups - 1)
Groups == [marker_id : MarkerIds, sources : SourceLists]
GroupLists == SeqsUpTo(Groups, MaxGroups)

Segments == { <<"w">> } \cup { Marker(k) : k \in MarkerIds }

RECURSIVE Flatten(_)
Flatten(ss) == IF ss = <<>> THEN <<>> ELSE Head(ss) \o Flatten(Tail(ss))

ExampleText == <<"See ">> \o Marker(0) \o <<" and ">> \o Marker(1) \o <<".">>
ExampleGroups == << [marker_id |-> 0, sources |-> <<SrcA>>],
                    [marker_id |-> 1, sources |-> <<SrcB, SrcC>>] >>

\* texts in which a marker token stands inside the two halves of another,
\* "[CITE-[CITE-k]1]", alone or after a marker token
NestedTexts ==
    { pre \o <<"[CITE-">> \o Marker(k) \o <<"1", "]">> :
          pre \in {<<>>} \cup { Marker(j) : j \in MarkerIds }, k \in MarkerIds }

EmbedTexts ==
    { Flatten(ss) : ss \in SeqsUpTo(Segments, MaxSegs) } \cup {ExampleText} \cup NestedTexts

NoEmbed == [md |-> <<>>, sources |-> <<>>]

EmbedInit ==
    /\ epc = "in"
    /\ markdown \in EmbedTexts
    /\ citations \in GroupLists
    /\ embTrace = <<>>
    /\ embOut = NoEmbed

\* one call of _embed_citations
EmbedCitations ==
    /\ epc = "in"
    /\ epc' = "out"
    /\ embTrace' = [k \in 1..(Len(citations) + 1) |->
                        EmbedLoop(markdown, SortDesc(citations), k - 1)]
    /\ embOut' = _embed_citations(markdown, citations)
    /\ UNCHANGED <<markdown, citations, detVars, pageVars, scrapeVars, restVars>>

(***************************************************************************)
(* The post-processing of scrape (Text Cleanup).  The pieces of its texts  *)
(* are a lower-case letter "a", an upper-case letter "B", ".", "\n", " ",  *)
(* the bold opener "**", the highlight marker "==", an inline-data image   *)
(* reference, an empty link, and the disclaimer phrases; the English       *)
(* disclaimer is the three pieces "AI-generated answers", " ",             *)
(* "may contain mistakes".  The regular expressions are evaluated as       *)
(* re.sub evaluates them: leftmost match first, matches do not overlap.    *)
(***************************************************************************)
PieceImage == "![i](data:image/png;base64,AA)"
PieceEmptyLink == "[](https://x.example/)"

DisclaimerDe == <<"KI-Antworten können Fehler enthalten">>
DisclaimerEn == <<"AI-generated answers", " ", "may contain mistakes">>
DisclaimerLink == <<"Öffentlicher Link wird erstellt">>

cut_off_markers == <<DisclaimerDe, DisclaimerEn, DisclaimerLink>>

\* s with the pieces equal to x removed
Without(s, x) == SelectSeq(s, LAMBDA y : y # x)

\* s.split(sub)[0]: the text before the first occurrence of sub
BeforeFirst(s, sub) ==
    LET k == CHOOSE k \in 0..(Len(s) - Len(sub)) :
                 /\ SubSeq(s, k + 1, k + Len(sub)) = sub
                 /\ \A j \in 0..(k - 1) : SubSeq(s, j + 1, j + Len(sub)) # sub
    IN  SubSeq(s, 1, k)

RECURSIVE CutOff(_, _)
\* for marker in cut_off_markers: if marker in markdown: markdown = split[0],
\* from the k-th marker on
CutOff(md, k) ==
    IF k > Len(cut_off_markers) THEN md
    ELSE CutOff(IF Contains(md, cut_off_markers[k])
                THEN BeforeFirst(md, cut_off_markers[k]) ELSE md, k + 1)

\* the last character of the piece is one of . ! ? : ; \n
EndsSentence(x) == x \in {".", "\n"}

\* the first character of the piece is in [a-zäöü]
StartsLower(x) == x \in {"a", "may contain mistakes"}

\* the piece is a single character
SingleChar(x) == x \in {"a", "B", ".", " ", "\n"}

RECURSIVE WsEnd(_, _)
\* the position after the longest run of whitespace that starts at p
WsEnd(s, p) == IF p <= Len(s) /\ IsSpace(s[p]) THEN WsEnd(s, p + 1) ELSE p

\* ([^\.\!\?\:\;\n])\n+\s*(\*\*) for bold, ([^\.\!\?\:\;\n])\n+\s*([a-zäöü])
\* otherwise, matches with the last character of piece p as its group 1
MergeAt(s, p, bold) ==
    /\ ~EndsSentence(s[p])
    /\ p + 1 <= Len(s)
    /\ s[p + 1] = "\n"
    /\ WsEnd(s, p + 1) <= Len(s)
    /\ IF bold THEN s[WsEnd(s, p + 1)] = "**" ELSE StartsLower(s[WsEnd(s, p + 1)])

RECURSIVE MergeLines(_, _, _, _)
\* re.sub(<pattern>, r'\1 \2', s) from piece p on; used says that the last
\* character of piece p belongs to the previous match
MergeLines(s, p, used, bold) ==
    IF p > Len(s) THEN <<>>
    ELSE IF ~used /\ MergeAt(s, p, bold)
         THEN LET q == WsEnd(s, p + 1)
              IN  <<s[p], " ">> \o MergeLines(s, q, bold \/ SingleChar(s[q]), bold)
         ELSE <<s[p]>> \o MergeLines(s, p + 1, FALSE, bold)

\* ^ of re.MULTILINE at position p
AtLineStart(s, p) == p = 1 \/ s[p - 1] = "\n"

\* the last position of the match of ^\s*\.\s*$ that starts at p, 0 if none:
\* after the period the match takes the whitespace up to the end of the
\* text, or else up to the last line break of the run, which it leaves
LonePeriodEnd(s, p) ==
    LET d == WsEnd(s, p)
    IN  IF ~AtLineStart(s, p) \/ d > Len(s) \/ s[d] # "." THEN 0
        ELSE LET e == WsEnd(s, d + 1)
             IN  IF e > Len(s) THEN Len(s)
                 ELSE IF \E m \in (d + 1)..(e - 1) : s[m] = "\n"
                      THEN (CHOOSE m \in (d + 1)..(e - 1) :
                               /\ s[m] = "\n"
                               /\ \A n \in (m + 1)..(e - 1) : s[n] # "\n") - 1
                      ELSE 0

RECURSIVE RemoveLonePeriods(_, _)
\* re.sub(r'^\s*\.\s*$', '', s, flags=re.MULTILINE) from position p on
RemoveLonePeriods(s, p) ==
    IF p > Len(s) THEN <<>>
    ELSE IF LonePeriodEnd(s, p) # 0 THEN RemoveLonePeriods(s, LonePeriodEnd(s, p) + 1)
    ELSE <<s[p]>> \o RemoveLonePeriods(s, p + 1)

RECURSIVE NlEnd(_, _)
\* the position after the longest run of line breaks that starts at p
NlEnd(s, p) == IF p <= Len(s) /\ s[p] = "\n" THEN NlEnd(s, p + 1) ELSE p

RECURSIVE CollapseBlankLines(_, _)
\* re.sub(r'\n{3,}', '\n\n', s) from position p on
CollapseBlankLines(s, p) ==
    IF p > Len(s) THEN <<>>
    ELSE IF s[p] = "\n"
         THEN (IF NlEnd(s, p) - p >= 3 THEN <<"\n", "\n">> ELSE SubSeq(s, p, NlEnd(s, p) - 1))
                  \o CollapseBlankLines(s, NlEnd(s, p))
         ELSE <<s[p]>> \o CollapseBlankLines(s, p + 1)

\* the three removals before the cut-off: "==", embedded images, empty links
RemoveArtifacts(md) == Without(Without(Without(md, "=="), PieceImage), PieceEmptyLink)

\* Post-Processing (Text Cleanup) of scrape, in the order of the code
postprocess(md) ==
    LET m3 == RemoveArtifacts(md)
        m4 == CutOff(m3, 1)
        m5 == MergeLines(m4, 1, FALSE, TRUE)
        m6 == MergeLines(m5, 1, FALSE, FALSE)
        m7 == Strip(m6)
        m8 == RemoveLonePeriods(m7, 1)
    IN  Strip(CollapseBlankLines(m8, 1))

(***************************************************************************)
(* The converted texts the post-processing is applied to: up to MaxLines   *)
(* lines joined by line breaks.                                            *)
(***************************************************************************)
PostLines ==
    { <<>>, <<"a">>, <<"B">>, <<".">>, <<"**">>,
      <<"AI-generated answers">>, <<"may contain mistakes">>,
      DisclaimerEn, DisclaimerEn \o <<".", " ", "B">>, DisclaimerDe, DisclaimerLink,
      <<"B", "==">>,
      <<PieceImage>>, <<PieceEmptyLink>> }

RECURSIVE JoinLines(_)
\* '\n'.join(lines)
JoinLines(ls) ==
    IF ls = <<>> THEN <<>>
    ELSE IF Len(ls) = 1 THEN ls[1]
    ELSE ls[1] \o <<"\n">> \o JoinLines(Tail(ls))

PostTexts == { JoinLines(ls) : ls \in SeqsUpTo(PostLines, MaxLines) }

PostInit ==
    /\ pIn \in PostTexts
    /\ pDoc = pIn
    /\ pRuns = 0
    /\ pCut = [before |-> <<>>, after |-> <<>>]

\* one pass of the post-processing over the document
PostPass ==
    /\ pRuns < 2
    /\ pRuns' = pRuns + 1
    /\ pDoc' = postprocess(pDoc)
    /\ pCut' = [before |-> RemoveArtifacts(pDoc), after |-> CutOff(RemoveArtifacts(pDoc), 1)]
    /\ UNCHANGED <<pIn, detVars, pageVars, scrapeVars, embVars, harvVars, cliVars, bibVars, stopVars>>

PostIdle ==
    /\ pIn = <<>>
    /\ pDoc = <<>>
    /\ pRuns = 2
    /\ pCut = [before |-> <<>>, after |-> <<>>]

(***************************************************************************)
(* DOM_INJECTION_SCRIPT, step by step, and what scrape does with its       *)
(* outcome.  The side panel (rhs-col) is filled by the page some time      *)
(* after a click; PanelPopulate is that event, at any moment.  Time is     *)
(* counted in milliseconds since startTime.                                *)
(***************************************************************************)
WaitCeiling == 300      \* while (Date.now() - startTime < 300)
PollStep == 10          \* setTimeout(r, 10)
SettleDelay == 50       \* setTimeout(r, 50)

MainColMissing == "main-col not found (AI Overview missing?)"

LinkA == [href |-> "https://a.example/", visible |-> TRUE]
LinkB == [href |-> "https://b.example/", visible |-> TRUE]
LinkHidden == [href |-> "https://c.example/", visible |-> FALSE]
LinkSupport == [href |-> "https://support.google.com/websearch", visible |-> TRUE]
LinkScript == [href |-> "javascript:void(0)", visible |-> TRUE]

\* url.startsWith('http')
StartsWithHttp(url) == url \notin {"javascript:void(0)", ""}

\* skipDomains.some(d => url.includes(d))
skipDomains(url) == url \in {"https://support.google.com/websearch"}

\* the link lists a click can bring into the side panel
PanelLists ==
    { <<>>, <<LinkA>>, <<LinkB>>,
      <<LinkSupport, LinkA, LinkHidden, LinkA, LinkScript, LinkB>> }

\* a button: visible, with the links its click brings, or hidden
Triggers ==
    { [visible |-> TRUE, links |-> l] : l \in PanelLists }
        \cup { [visible |-> FALSE, links |-> <<>>] }
TriggerLists == SeqsUpTo(Triggers, MaxTriggers)

Btn(k) == [kind |-> "btn", n |-> k]
CiteSpan(n) == [kind |-> "marker", n |-> n]

\* the side panel before any click
PanelEmpty == [links |-> <<>>, owner |-> 0]

\* isVisible of the script, on a button or a link
isVisible(el) == el.visible

\* countVisibleLinks()
countVisibleLinks == Len(SelectSeq(panel.links, isVisible))

\* btn.parentNode.insertBefore(marker, btn.nextSibling) / appendChild(marker)
InsertAfter(dom, k, m) ==
    LET q == CHOOSE q \in 1..Len(dom) : dom[q] = Btn(k)
    IN  SubSeq(dom, 1, q) \o <<m>> \o SubSeq(dom, q + 1, Len(dom))

RECURSIVE ExtractFrom(_, _, _)
\* step 3 of the loop body: the visible, external, not yet seen links
ExtractFrom(links, k, seen) ==
    IF k > Len(links) THEN <<>>
    ELSE LET url == links[k].href
         IN  IF /\ isVisible(links[k])
                /\ url # ""
                /\ StartsWithHttp(url)
                /\ ~skipDomains(url)
                /\ url \notin seen
             THEN <<url>> \o ExtractFrom(links, k + 1, seen \cup {url})
             ELSE ExtractFrom(links, k + 1, seen)

NoRet == [kind |-> "none"]

HarvInit ==
    /\ hpc = "start"
    /\ mainCol \in BOOLEAN
    /\ buttons \in TriggerLists
    /\ bi = 1
    /\ markerIndex = 0
    /\ markerId = 0
    /\ hdom = [k \in 1..Len(buttons) |-> Btn(k)]
    /\ panel = PanelEmpty
    /\ pending = 0
    /\ beforeCount = 0
    /\ waited = 0
    /\ allCitations = <<>>
    /\ readFrom = <<>>
    /\ clicks = <<>>
    /\ hret = NoRet

HarvIdle ==
    /\ hpc = "idle"
    /\ mainCol = FALSE
    /\ buttons = <<>>
    /\ bi = 1
    /\ markerIndex = 0
    /\ markerId = 0
    /\ hdom = <<>>
    /\ panel = PanelEmpty
    /\ pending = 0
    /\ beforeCount = 0
    /\ waited = 0
    /\ allCitations = <<>>
    /\ readFrom = <<>>
    /\ clicks = <<>>
    /\ hret = NoRet

\* the script ends: page.evaluate has its outcome
ScriptReturn(r) ==
    /\ hpc' = "returned"
    /\ hret' = r

\* the start of the script without the test of mainCol
HarvestStartNoCheck ==
    /\ hpc = "start"
    /\ pc = "evaluate"
    /\ ~pageClosed
    /\ hpc' = "loop"
    /\ UNCHANGED <<hret, mainCol, buttons, bi, markerIndex, markerId, hdom, panel, pending,
                   beforeCount, waited, allCitations, readFrom, clicks,
                   detVars, pageVars, scrapeVars, embVars, postVars, bibVars, stopVars, cliVars>>

\* const mainCol = document.querySelector(...); if (!mainCol) return {error}
HarvestStart ==
    /\ hpc = "start"
    /\ pc = "evaluate"
    /\ ~pageClosed
    /\ IF ~mainCol
       THEN ScriptReturn([kind |-> "data", error |-> MainColMissing])
       ELSE hpc' = "loop" /\ UNCHANGED hret
    /\ UNCHANGED <<mainCol, buttons, bi, markerIndex, markerId, hdom, panel, pending,
                   beforeCount, waited, allCitations, readFrom, clicks,
                   detVars, pageVars, scrapeVars, embVars, postVars, bibVars, stopVars, cliVars>>

\* the head of the loop taking the marker id before the test of visibility
NextButtonCountsHidden ==
    /\ hpc = "loop"
    /\ ~pageClosed
    /\ IF bi > Len(buttons)
       THEN /\ ScriptReturn([kind |-> "data", html |-> hdom, citations |-> allCitations])
            /\ UNCHANGED <<bi, markerIndex, markerId, hdom>>
       ELSE IF ~isVisible(buttons[bi])
            THEN /\ bi' = bi + 1
                 /\ markerId' = markerIndex
                 /\ markerIndex' = markerIndex + 1
                 /\ UNCHANGED <<hpc, hret, hdom>>
            ELSE /\ markerId' = markerIndex
                 /\ markerIndex' = markerIndex + 1
                 /\ hdom' = InsertAfter(hdom, bi, CiteSpan(markerIndex))
                 /\ hpc' = "click"
                 /\ UNCHANGED <<bi, hret>>
    /\ UNCHANGED <<mainCol, buttons, panel, pending, beforeCount, waited, allCitations,
                   readFrom, clicks, detVars, pageVars, scrapeVars, embVars, postVars, bibVars, stopVars, cliVars>>

\* head of `for (const btn of buttons)` up to the insertion of the marker;
\* after the last button the script returns html and citations
NextButton ==
    /\ hpc = "loop"
    /\ ~pageClosed
    /\ IF bi > Len(buttons)
       THEN /\ ScriptReturn([kind |-> "data", html |-> hdom, citations |-> allCitations])
            /\ UNCHANGED <<bi, markerIndex, markerId, hdom>>
       ELSE IF ~isVisible(buttons[bi])
            THEN /\ bi' = bi + 1
                 /\ UNCHANGED <<hpc, hret, markerIndex, markerId, hdom>>
            ELSE /\ markerId' = markerIndex
                 /\ markerIndex' = markerIndex + 1
                 /\ hdom' = InsertAfter(hdom, bi, CiteSpan(markerIndex))
                 /\ hpc' = "click"
                 /\ UNCHANGED <<bi, hret>>
    /\ UNCHANGED <<mainCol, buttons, panel, pending, beforeCount, waited, allCitations,
                   readFrom, clicks, detVars, pageVars, scrapeVars, embVars, postVars, bibVars, stopVars, cliVars>>

\* step 2 up to btn.click(); an exception in it goes to the catch block
Click ==
    /\ hpc = "click"
    /\ ~pageClosed
    /\ \/ /\ beforeCount' = countVisibleLinks
          /\ clicks' = Append(clicks, bi)
          /\ pending' = bi
          /\ waited' = 0
          /\ hpc' = "wait"
       \/ /\ hpc' = "extract"
          /\ UNCHANGED <<beforeCount, clicks, pending, waited>>
    /\ UNCHANGED <<mainCol, buttons, bi, markerIndex, markerId, hdom, panel,
                   allCitations, readFrom, hret,
                   detVars, pageVars, scrapeVars, embVars, postVars, bibVars, stopVars, cliVars>>

\* the Smart Wait loop without its ceiling: while (true)
WaitTickNoCeiling ==
    /\ hpc = "wait"
    /\ ~pageClosed
    /\ hpc' = IF countVisibleLinks # beforeCount THEN "settle" ELSE "wait"
    /\ UNCHANGED <<waited, mainCol, buttons, bi, markerIndex, markerId, hdom, panel, pending,
                   beforeCount, allCitations, readFrom, clicks, hret,
                   detVars, pageVars, scrapeVars, embVars, postVars, bibVars, stopVars, cliVars>>

\* one round of the Smart Wait loop: the test of the ceiling, the 10 ms
\* sleep, the comparison of the link count
WaitTick ==
    /\ hpc = "wait"
    /\ ~pageClosed
    /\ IF waited < WaitCeiling
       THEN /\ waited' = waited + PollStep
            /\ hpc' = IF countVisibleLinks # beforeCount THEN "settle" ELSE "wait"
       ELSE /\ hpc' = "settle"
            /\ UNCHANGED waited
    /\ UNCHANGED <<mainCol, buttons, bi, markerIndex, markerId, hdom, panel, pending,
                   beforeCount, allCitations, readFrom, clicks, hret,
                   detVars, pageVars, scrapeVars, embVars, postVars, bibVars, stopVars, cliVars>>

\* Kurzer Puffer für Animationen
Settle ==
    /\ hpc = "settle"
    /\ ~pageClosed
    /\ waited' = waited + SettleDelay
    /\ hpc' = "extract"
    /\ UNCHANGED <<mainCol, buttons, bi, markerIndex, markerId, hdom, panel, pending,
                   beforeCount, allCitations, readFrom, clicks, hret,
                   detVars, pageVars, scrapeVars, embVars, postVars, bibVars, stopVars, cliVars>>

\* step 3 pushing a group only if it has sources
ExtractSkipEmpty ==
    /\ hpc = "extract"
    /\ ~pageClosed
    /\ IF ExtractFrom(panel.links, 1, {}) = <<>>
       THEN UNCHANGED <<allCitations, readFrom>>
       ELSE /\ allCitations' = Append(allCitations,
                                      [marker_id |-> markerId,
                                       sources |-> ExtractFrom(panel.links, 1, {})])
            /\ readFrom' = Append(readFrom, [trigger |-> bi, owner |-> panel.owner,
                                      clicked |-> clicks # <<>> /\ clicks[Len(clicks)] = bi])
    /\ bi' = bi + 1
    /\ hpc' = "loop"
    /\ UNCHANGED <<mainCol, buttons, markerIndex, markerId, hdom, panel, pending,
                   beforeCount, waited, clicks, hret,
                   detVars, pageVars, scrapeVars, embVars, postVars, bibVars, stopVars, cliVars>>

\* step 3 and allCitations.push({marker_id, sources})
Extract ==
    /\ hpc = "extract"
    /\ ~pageClosed
    /\ allCitations' = Append(allCitations,
                              [marker_id |-> markerId,
                               sources |-> ExtractFrom(panel.links, 1, {})])
    /\ readFrom' = Append(readFrom, [trigger |-> bi, owner |-> panel.owner,
                                      clicked |-> clicks # <<>> /\ clicks[Len(clicks)] = bi])
    /\ bi' = bi + 1
    /\ hpc' = "loop"
    /\ UNCHANGED <<mainCol, buttons, markerIndex, markerId, hdom, panel, pending,
                   beforeCount, waited, clicks, hret,
                   detVars, pageVars, scrapeVars, embVars, postVars, bibVars, stopVars, cliVars>>

\* an exception outside the try block ends the script
ScriptThrows ==
    /\ hpc \in {"loop", "extract"}
    /\ ~pageClosed
    /\ ScriptReturn([kind |-> "exception"])
    /\ UNCHANGED <<mainCol, buttons, bi, markerIndex, markerId, hdom, panel, pending,
                   beforeCount, waited, allCitations, readFrom, clicks,
                   detVars, pageVars, scrapeVars, embVars, postVars, bibVars, stopVars, cliVars>>

\* the page shows the links of the last click in the side panel
PanelPopulate ==
    /\ pending # 0
    /\ hpc # "returned"
    /\ ~pageClosed
    /\ panel' = [links |-> buttons[pending].links, owner |-> pending]
    /\ pending' = 0
    /\ UNCHANGED <<hpc, mainCol, buttons, bi, markerIndex, markerId, hdom,
                   beforeCount, waited, allCitations, readFrom, clicks, hret,
                   detVars, pageVars, scrapeVars, embVars, postVars, bibVars, stopVars, cliVars>>

\* data = self.page.evaluate(DOM_INJECTION_SCRIPT) with its except handler,
\* and `if 'error' in data`
EvaluateReturn ==
    /\ pc = "evaluate"
    /\ harvestCalls' = harvestCalls + 1
    /\ opOnClosed' = (opOnClosed \/ pageClosed)
    /\ IF pageClosed
       THEN /\ ScriptReturn([kind |-> "exception"])
            /\ \E e \in ClosedMsgs : Return(ExceptResult(e, "JS Injection failed"), "harvest")
       ELSE /\ hpc = "returned"
            /\ UNCHANGED <<hpc, hret>>
            /\ IF hret.kind = "exception"
               THEN \E e \in OtherMsgs : Return(ExceptResult(e, "JS Injection failed"), "harvest")
               ELSE IF "error" \in DOMAIN hret
                    THEN Return(Failure(hret.error), "harvest")
                    ELSE Return(Success, "harvest")
    /\ UNCHANGED <<mainCol, buttons, bi, markerIndex, markerId, hdom, panel, pending,
                   beforeCount, waited, allCitations, readFrom, clicks,
                   pageVars, headless, i, ai_ready, detected, polls,
                   detVars, embVars, postVars, bibVars, stopVars, cliVars>>

\* scrape in the call of page.evaluate, the readiness loop left behind
ScrapeAtHarvest ==
    /\ pc = "evaluate"
    /\ headless = TRUE
    /\ pageClosed = FALSE
    /\ pageUrl = PageAnswer.url
    /\ pageBody = PageAnswer.body
    /\ pageSel = PageAnswer.sel
    /\ i = 0
    /\ ai_ready = TRUE
    /\ detected = "no"
    /\ result = NoResult
    /\ polls = 1
    /\ harvestCalls = 0
    /\ opOnClosed = FALSE
    /\ endStage = "none"

(***************************************************************************)
(* The navigation address of scrape.  A query is a sequence of characters;  *)
(* the address is the pieces of its fixed part followed by characters.     *)
(***************************************************************************)
QueryChars == {"a", " ", "&", "#", "+", "%", "4", "1", "ü"}
Queries == SeqsUpTo(QueryChars, MaxQueryLen)

\* "https://www.google.com/search?udm=50&q="
SearchPrefix == <<"https://www.google.com/search", "?", "udm=50", "&", "q=">>

\* query.replace(' ', '+')
ReplaceSpaces(q) == [k \in 1..Len(q) |-> IF q[k] = " " THEN "+" ELSE q[k]]

UrlInit ==
    /\ upc = "in"
    /\ navQuery \in Queries
    /\ navUrl = <<>>

UrlIdle ==
    /\ upc = "idle"
    /\ navQuery = <<>>
    /\ navUrl = <<>>

\* url = f"https://www.google.com/search?udm=50&q={query.replace(' ', '+')}"
BuildUrl ==
    /\ upc = "in"
    /\ upc' = "out"
    /\ navUrl' = SearchPrefix \o ReplaceSpaces(navQuery)
    /\ UNCHANGED <<navQuery, mainVars, detVars, pageVars, scrapeVars, embVars, postVars, bibVars, stopVars, harvVars>>

(***************************************************************************)
(* main: scraper.start(), scraper.scrape(query), the output and the exit   *)
(* code.  A KeyboardInterrupt can be raised wherever the program is.       *)
(***************************************************************************)
MainInit ==
    /\ mpc = "start"
    /\ exitCode = -1
    /\ sigint = FALSE
    /\ unexpected = FALSE

MainIdle ==
    /\ mpc = "idle"
    /\ exitCode = -1
    /\ sigint = FALSE
    /\ unexpected = FALSE

\* the scraper of main before scraper.start()
ScrapeNotStarted ==
    /\ pc = "idle"
    /\ headless \in BOOLEAN
    /\ pageClosed = FALSE
    /\ pageUrl = UrlBlank
    /\ pageBody = <<>>
    /\ pageSel = NoWidget
    /\ i = 0
    /\ ai_ready = FALSE
    /\ detected = "none"
    /\ result = NoResult
    /\ polls = 0
    /\ harvestCalls = 0
    /\ opOnClosed = FALSE
    /\ endStage = "none"

\* sys.exit(code), or the end of main, through `finally: scraper.stop()`
SysExit(code) ==
    /\ exitCode' = code
    /\ mpc' = "exited"
    /\ pageClosed' = TRUE

\* scraper.start(); an exception of it goes to `except Exception`
MainStart ==
    /\ mpc = "start"
    /\ \/ /\ unexpected' = TRUE
          /\ SysExit(1)
          /\ UNCHANGED pc
       \/ /\ mpc' = "scrape"
          /\ pc' = "goto"
          /\ UNCHANGED <<unexpected, exitCode, pageClosed>>
    /\ UNCHANGED <<sigint, pageUrl, pageBody, pageSel, headless, i, ai_ready, detected,
                   result, polls, harvestCalls, opOnClosed, endStage,
                   detVars, embVars, postVars, bibVars, stopVars, harvVars, urlVars>>

\* a KeyboardInterrupt outside the try blocks of detect_captcha: no handler
\* of scrape catches it, `except KeyboardInterrupt` of main does
KeyboardInterruptRaised ==
    /\ mpc \in {"start", "scrape"}
    /\ mpc = "scrape" => pc \in {"goto", "wait", "harvest", "done"}
    /\ sigint' = TRUE
    /\ pc' = IF mpc = "scrape" /\ pc # "done" THEN "aborted" ELSE pc
    /\ SysExit(130)
    /\ UNCHANGED <<unexpected, pageUrl, pageBody, pageSel, headless, i, ai_ready, detected,
                   result, polls, harvestCalls, opOnClosed, endStage,
                   detVars, embVars, postVars, bibVars, stopVars, harvVars, urlVars>>

\* CAPTCHA CHECK with a KeyboardInterrupt raised inside a try block of
\* detect_captcha: `except: pass` catches it like a failed read
DetectInterrupted ==
    /\ mpc = "scrape"
    /\ pc = "detect"
    /\ sigint' = TRUE
    /\ opOnClosed' = (opOnClosed \/ pageClosed)
    /\ \E fu \in BOOLEAN, f2 \in BOOLEAN, f3 \in BOOLEAN, fs \in BOOLEAN :
          /\ fu \/ f2 \/ f3 \/ fs
          /\ LET d == detect_captcha(PageReads(fu, f2, f3, fs))
             IN  /\ detected' = IF d.value THEN "yes" ELSE "no"
                 /\ CaptchaCheck(d)
    /\ UNCHANGED <<pageVars, headless, i, ai_ready, polls, harvestCalls,
                   mpc, exitCode, unexpected,
                   detVars, embVars, postVars, bibVars, stopVars, harvVars, urlVars>>

\* main after scraper.scrape(query) has returned: the output files on
\* success (writing them can raise), the exit codes on failure
MainResult ==
    /\ mpc = "scrape"
    /\ pc = "done"
    /\ IF result.success
       THEN \/ SysExit(0) /\ UNCHANGED unexpected
            \/ unexpected' = TRUE /\ SysExit(1)
       ELSE /\ SysExit(IF result.error = "CAPTCHA_REQUIRED" THEN 2
                       ELSE IF result.error = "BROWSER_CLOSED_BY_USER" THEN 3
                       ELSE 1)
            /\ UNCHANGED unexpected
    /\ UNCHANGED <<sigint, pageUrl, pageBody, pageSel, scrapeVars,
                   detVars, embVars, postVars, bibVars, stopVars, harvVars, urlVars>>

(***************************************************************************)
(* The sources section scrape appends to the text (Quellenverzeichnis      *)
(* anhängen).  The sources are the ones the script pushed: the title of a  *)
(* source is the trimmed text of its link, else the aria-label of the      *)
(* link, else the empty string; titles are sequences of pieces.            *)
(***************************************************************************)
MaxSources == 3

\* links of the side panel: text is innerText, aria the aria-label (<<>> for
\* an absent or an empty attribute: both are falsy)
BibLinkText == [text |-> <<" ", "A">>, aria |-> <<>>, href |-> "https://a.example/"]
BibLinkLabel == [text |-> <<" ">>, aria |-> <<"L">>, href |-> "https://b.example/"]
BibLinkIcon == [text |-> <<>>, aria |-> <<>>, href |-> "https://c.example/"]
BibLinks == {BibLinkText, BibLinkLabel, BibLinkIcon}

\* link.innerText.trim() || link.getAttribute('aria-label') || ''
TitleOf(link) ==
    IF Strip(link.text) # <<>> THEN Strip(link.text)
    ELSE IF link.aria # <<>> THEN link.aria
    ELSE <<>>

\* sources.push({ title: title, url: url, ... })
SourceOf(link) == [title |-> TitleOf(link), url |-> link.href]

BibSources == SeqsUpTo({ SourceOf(l) : l \in BibLinks }, MaxSources)
BibTexts == { <<>>, <<"w">>, <<"w", "[", "1", "]">> }

\* source.get('title', 'Link')
GetTitle(source) == IF "title" \in DOMAIN source THEN source.title ELSE <<"Link">>

SourcesHeader == <<"\n\n---\n\n## Sources:\n\n">>

RECURSIVE SourceEntries(_, _)
\* for i, source in enumerate(sources, 1):
\*     markdown += f"[{i}] {source.get('title', 'Link')}  \n{source.get('url')}\n\n"
\* for the first n sources
SourceEntries(sources, n) ==
    IF n = 0 THEN <<>>
    ELSE SourceEntries(sources, n - 1)
             \o <<"[">> \o ToDigits(n) \o <<"]", " ">> \o GetTitle(sources[n])
             \o <<"  \n", sources[n].url, "\n\n">>

\* if sources: markdown += header, then the entries
WithSources(md, sources) ==
    IF sources # <<>>
    THEN md \o SourcesHeader \o SourceEntries(sources, Len(sources))
    ELSE md

NoBib == <<"unset">>

BibInit ==
    /\ bpc = "in"
    /\ bMd \in BibTexts
    /\ bSources \in BibSources
    /\ bOut = NoBib

BibIdle ==
    /\ bpc = "idle"
    /\ bMd = <<>>
    /\ bSources = <<>>
    /\ bOut = NoBib

\* Quellenverzeichnis anhängen
AppendSources ==
    /\ bpc = "in"
    /\ bpc' = "out"
    /\ bOut' = WithSources(bMd, bSources)
    /\ UNCHANGED <<bMd, bSources, detVars, pageVars, scrapeVars, embVars, postVars,
                   harvVars, cliVars, stopVars>>

(***************************************************************************)
(* main around the scraper: start() step by step, scrape() as one call     *)
(* with its outcomes, the branches on the result, the two except clauses   *)
(* and `finally: scraper.stop()` with the three closing calls of stop().   *)
(***************************************************************************)
StopInit ==
    /\ spc = "start_pw"
    /\ selfPw = FALSE
    /\ selfCtx = FALSE
    /\ selfPage = FALSE
    /\ sOutcome = "none"
    /\ sExit = -1
    /\ stopCalls = 0
    /\ tried = {}
    /\ raised = {}

StopIdle ==
    /\ spc = "idle"
    /\ selfPw = FALSE
    /\ selfCtx = FALSE
    /\ selfPage = FALSE
    /\ sOutcome = "none"
    /\ sExit = -1
    /\ stopCalls = 0
    /\ tried = {}
    /\ raised = {}

\* the try block of main is left with the exit code, towards `finally`
LeaveTry(outcome, code) ==
    /\ sOutcome' = outcome
    /\ sExit' = code
    /\ spc' = "finally"

\* except Exception as e: ... sys.exit(1)
ExceptException == LeaveTry("exception", 1)

\* self.pw = sync_playwright().start()
StartPw ==
    /\ spc = "start_pw"
    /\ \/ selfPw' = TRUE /\ spc' = "launch" /\ UNCHANGED <<sOutcome, sExit>>
       \/ ExceptException /\ UNCHANGED selfPw
    /\ UNCHANGED <<selfCtx, selfPage, stopCalls, tried, raised,
                   detVars, pageVars, scrapeVars, embVars, postVars, harvVars, cliVars, bibVars>>

\* self.ctx = factory.launch_persistent_context(self.pw, ...)
LaunchContext ==
    /\ spc = "launch"
    /\ \/ selfCtx' = TRUE /\ spc' = "new_page" /\ UNCHANGED <<sOutcome, sExit>>
       \/ ExceptException /\ UNCHANGED selfCtx
    /\ UNCHANGED <<selfPw, selfPage, stopCalls, tried, raised,
                   detVars, pageVars, scrapeVars, embVars, postVars, harvVars, cliVars, bibVars>>

\* self.page = self.ctx.new_page()
NewPage ==
    /\ spc = "new_page"
    /\ \/ selfPage' = TRUE /\ spc' = "scrape" /\ UNCHANGED <<sOutcome, sExit>>
       \/ ExceptException /\ UNCHANGED selfPage
    /\ UNCHANGED <<selfPw, selfCtx, stopCalls, tried, raised,
                   detVars, pageVars, scrapeVars, embVars, postVars, harvVars, cliVars, bibVars>>

\* the results scrape returns, by what main tests of them
ScrapeOutcomes == {"success", "CAPTCHA_REQUIRED", "BROWSER_CLOSED_BY_USER", "other"}

\* result = scraper.scrape(query): a result, or an exception
ScrapeCall ==
    /\ spc = "scrape"
    /\ \/ \E r \in ScrapeOutcomes :
              sOutcome' = r /\ spc' = "result" /\ UNCHANGED sExit
       \/ ExceptException
    /\ UNCHANGED <<selfPw, selfCtx, selfPage, stopCalls, tried, raised,
                   detVars, pageVars, scrapeVars, embVars, postVars, harvVars, cliVars, bibVars>>

\* if result['success']: the files are written (which can raise) and the
\* try block ends; else sys.exit(2), sys.exit(3) or sys.exit(1)
ResultBranch ==
    /\ spc = "result"
    /\ IF sOutcome = "success"
       THEN LeaveTry("success", 0) \/ ExceptException
       ELSE LeaveTry(sOutcome, IF sOutcome = "CAPTCHA_REQUIRED" THEN 2
                               ELSE IF sOutcome = "BROWSER_CLOSED_BY_USER" THEN 3
                               ELSE 1)
    /\ UNCHANGED <<selfPw, selfCtx, selfPage, stopCalls, tried, raised,
                   detVars, pageVars, scrapeVars, embVars, postVars, harvVars, cliVars, bibVars>>

\* the user presses Ctrl+C while the try block runs:
\* except KeyboardInterrupt: ... sys.exit(130)
CtrlC ==
    /\ spc \in {"start_pw", "launch", "new_page", "scrape", "result"}
    /\ LeaveTry("interrupt", 130)
    /\ UNCHANGED <<selfPw, selfCtx, selfPage, stopCalls, tried, raised,
                   detVars, pageVars, scrapeVars, embVars, postVars, harvVars, cliVars, bibVars>>

\* try: if <attribute>: <closing call> except Exception: log; the call is
\* made when the attribute is set, and raises or not
TryClose(isSet, call) ==
    IF isSet
    THEN /\ tried' = tried \cup {call}
         /\ \/ raised' = raised \cup {call}
            \/ UNCHANGED raised
    ELSE UNCHANGED <<tried, raised>>

\* stop() with the three closing calls in one try block
StopPageOneTry ==
    /\ spc = "finally"
    /\ stopCalls' = stopCalls + 1
    /\ IF selfPage
       THEN /\ tried' = tried \cup {"page.close"}
            /\ \/ raised' = raised \cup {"page.close"} /\ spc' = "exited"
               \/ UNCHANGED raised /\ spc' = "stop_ctx"
       ELSE UNCHANGED <<tried, raised>> /\ spc' = "stop_ctx"
    /\ UNCHANGED <<selfPw, selfCtx, selfPage, sOutcome, sExit,
                   detVars, pageVars, scrapeVars, embVars, postVars, harvVars, cliVars, bibVars>>

\* finally: scraper.stop(), its first try block: self.page.close()
StopPage ==
    /\ spc = "finally"
    /\ stopCalls' = stopCalls + 1
    /\ TryClose(selfPage, "page.close")
    /\ spc' = "stop_ctx"
    /\ UNCHANGED <<selfPw, selfCtx, selfPage, sOutcome, sExit,
                   detVars, pageVars, scrapeVars, embVars, postVars, harvVars, cliVars, bibVars>>

\* the second try block of stop(): self.ctx.close()
StopCtx ==
    /\ spc = "stop_ctx"
    /\ TryClose(selfCtx, "ctx.close")
    /\ spc' = "stop_pw"
    /\ UNCHANGED <<selfPw, selfCtx, selfPage, sOutcome, sExit, stopCalls,
                   detVars, pageVars, scrapeVars, embVars, postVars, harvVars, cliVars, bibVars>>

\* the third try block of stop(): self.pw.stop(); then the process exits
StopPw ==
    /\ spc = "stop_pw"
    /\ TryClose(selfPw, "pw.stop")
    /\ spc' = "exited"
    /\ UNCHANGED <<selfPw, selfCtx, selfPage, sOutcome, sExit, stopCalls,
                   detVars, pageVars, scrapeVars, embVars, postVars, harvVars, cliVars, bibVars>>

(***************************************************************************)
(* Specifications.  Spec runs scrape, SpecDetect applies detect_captcha to *)
(* page observations, SpecEmbed applies _embed_citations to texts and      *)
(* groups; the variables of the other parts stay idle.                     *)
(***************************************************************************)
DetectIdle ==
    /\ dpc = "idle"
    /\ dReads = [url |-> ReadFail, body2 |-> ReadFail, body3 |-> ReadFail,
                 sel |-> NoWidget, page |-> [url |-> UrlBlank, body |-> <<>>]]
    /\ dOut = NoOut

ScrapeIdle ==
    /\ pc = "idle"
    /\ headless = TRUE
    /\ pageClosed = FALSE
    /\ pageUrl = UrlBlank
    /\ pageBody = <<>>
    /\ pageSel = NoWidget
    /\ i = 0
    /\ ai_ready = FALSE
    /\ detected = "none"
    /\ result = NoResult
    /\ polls = 0
    /\ harvestCalls = 0
    /\ opOnClosed = FALSE
    /\ endStage = "none"

EmbedIdle ==
    /\ epc = "idle"
    /\ markdown = <<>>
    /\ citations = <<>>
    /\ embTrace = <<>>
    /\ embOut = NoEmbed

CliIdle == UrlIdle /\ MainIdle

RestIdle == PostIdle /\ HarvIdle /\ CliIdle /\ BibIdle /\ StopIdle

Init == ScrapeInit /\ DetectIdle /\ EmbedIdle /\ RestIdle
Next == Goto \/ Detect \/ Poll \/ Harvest \/ ClosePage \/ PageUpdate
Spec == Init /\ [][Next]_vars

InitDetect == DetectInit /\ ScrapeIdle /\ EmbedIdle /\ RestIdle
NextDetect == DetectApply
SpecDetect == InitDetect /\ [][NextDetect]_vars

InitEmbed == EmbedInit /\ ScrapeIdle /\ DetectIdle /\ RestIdle
NextEmbed == EmbedCitations
SpecEmbed == InitEmbed /\ [][NextEmbed]_vars

InitPost ==
    PostInit /\ ScrapeIdle /\ DetectIdle /\ EmbedIdle /\ HarvIdle /\ CliIdle /\ BibIdle /\ StopIdle
NextPost == PostPass
SpecPost == InitPost /\ [][NextPost]_vars

InitHarvest ==
    HarvInit /\ ScrapeAtHarvest /\ DetectIdle /\ EmbedIdle /\ PostIdle /\ CliIdle /\ BibIdle /\ StopIdle
NextHarvest ==
    \/ HarvestStart \/ NextButton \/ Click \/ WaitTick \/ Settle \/ Extract
    \/ ScriptThrows \/ PanelPopulate \/ EvaluateReturn \/ ClosePage
SpecHarvest == InitHarvest /\ [][NextHarvest]_vars

\* Runs of scrape for termination: from its start with the script taken as
\* one step of page.evaluate, or from page.evaluate on with the script step
\* by step.  The steps of the program are taken (weak fairness); nothing is
\* assumed of the page, the user or the side panel.
InitRun ==
    /\ \/ ScrapeInit /\ HarvIdle
       \/ ScrapeAtHarvest /\ HarvInit
    /\ DetectIdle /\ EmbedIdle /\ PostIdle /\ CliIdle /\ BibIdle /\ StopIdle
ScrapeStep == Goto \/ Detect \/ Poll \/ Harvest
ScriptStep ==
    \/ HarvestStart \/ NextButton \/ Click \/ WaitTick \/ Settle \/ Extract
    \/ EvaluateReturn
NextRun ==
    \/ ScrapeStep \/ ScriptStep
    \/ ScriptThrows \/ PanelPopulate \/ ClosePage \/ PageUpdate
SpecRun == InitRun /\ [][NextRun]_vars /\ WF_vars(ScrapeStep) /\ WF_vars(ScriptStep)

InitUrl ==
    UrlInit /\ MainIdle /\ ScrapeIdle /\ DetectIdle /\ EmbedIdle /\ PostIdle /\ HarvIdle /\ BibIdle /\ StopIdle
NextUrl == BuildUrl
SpecUrl == InitUrl /\ [][NextUrl]_vars

InitMain ==
    MainInit /\ ScrapeNotStarted /\ UrlIdle /\ DetectIdle /\ EmbedIdle /\ PostIdle /\ HarvIdle
    /\ BibIdle /\ StopIdle
NextMain ==
    \/ MainStart \/ Goto \/ Detect \/ Poll \/ Harvest \/ ClosePage \/ PageUpdate
    \/ KeyboardInterruptRaised \/ DetectInterrupted \/ MainResult
SpecMain == InitMain /\ [][NextMain]_vars

InitBib ==
    BibInit /\ ScrapeIdle /\ DetectIdle /\ EmbedIdle /\ PostIdle /\ HarvIdle /\ CliIdle
    /\ StopIdle
NextBib == AppendSources
SpecBib == InitBib /\ [][NextBib]_vars

\* main from the creation of the scraper to the exit.  The calls start(),
\* scrape() and the closing calls return or raise, so the steps of main are
\* taken (weak fairness); nothing is assumed of the user.
InitStop ==
    StopInit /\ ScrapeIdle /\ DetectIdle /\ EmbedIdle /\ PostIdle /\ HarvIdle /\ CliIdle
    /\ BibIdle
MainStep ==
    \/ StartPw \/ LaunchContext \/ NewPage \/ ScrapeCall \/ ResultBranch
    \/ StopPage \/ StopCtx \/ StopPw
NextStop == MainStep \/ CtrlC
SpecStop == InitStop /\ [][NextStop]_vars /\ WF_vars(MainStep)

(***************************************************************************)
(* Properties.                                                             *)
(***************************************************************************)
StrictlyAscending(q) == \A a, b \in 1..Len(q) : a < b => q[a] < q[b]

FromDigits(d) == CHOOSE n \in 0..99 : ToDigits(n) = d

RECURSIVE MarkerSeq(_, _)
\* the ids of the marker tokens of s from position p on, in reading order
MarkerSeq(s, p) ==
    IF p > Len(s) THEN <<>>
    ELSE IF MarkerAt(s, p)
         THEN <<FromDigits(SubSeq(s, p + 1, DigitsEnd(s, p + 1) - 1))>>
                  \o MarkerSeq(s, DigitsEnd(s, p + 1) + 1)
         ELSE MarkerSeq(s, p + 1)

FootnoteAt(s, p) ==
    /\ s[p] = "["
    /\ DigitsEnd(s, p + 1) > p + 1
    /\ DigitsEnd(s, p + 1) <= Len(s)
    /\ s[DigitsEnd(s, p + 1)] = "]"

RECURSIVE FootnoteSeq(_, _)
\* the footnote numbers of s from position p on, in reading order
FootnoteSeq(s, p) ==
    IF p > Len(s) THEN <<>>
    ELSE IF FootnoteAt(s, p)
         THEN <<FromDigits(SubSeq(s, p + 1, DigitsEnd(s, p + 1) - 1))>>
                  \o FootnoteSeq(s, DigitsEnd(s, p + 1) + 1)
         ELSE FootnoteSeq(s, p + 1)

DistinctIds(cits) ==
    \A a, b \in 1..Len(cits) : a # b => cits[a].marker_id # cits[b].marker_id

SourcesOf(cits, id) ==
    IF \E k \in 1..Len(cits) : cits[k].marker_id = id
    THEN cits[CHOOSE k \in 1..Len(cits) : cits[k].marker_id = id].sources
    ELSE <<>>

\* the sources of the groups in the order in which their markers are read
SourcesInReadingOrder(md, cits) ==
    Flatten([k \in 1..Len(MarkerSeq(md, 1)) |-> SourcesOf(cits, MarkerSeq(md, 1)[k])])

ExampleEmbedded ==
    <<"See ", "[", "1", "]", " and ", "[", "2", "]", "[", "3", "]", ".">>

\* C1: when the marker tokens stand in the text in ascending id order (and
\* the groups have distinct ids), the footnote numbers written by
\* _embed_citations ascend in reading order and the returned sources are
\* those of the groups in ascending marker-id order; "See [CITE-0] and
\* [CITE-1]." with groups [{0,[A]},{1,[B,C]}] gives "See [1] and [2][3]."
\* and sources [A, B, C].
C1_FootnotesFollowReadingOrder ==
    epc = "out" =>
      /\ (StrictlyAscending(MarkerSeq(markdown, 1)) /\ DistinctIds(citations)) =>
            /\ StrictlyAscending(FootnoteSeq(embOut.md, 1))
            /\ embOut.sources = SourcesInReadingOrder(markdown, citations)
      /\ (markdown = ExampleText /\ citations = ExampleGroups) =>
            embOut = [md |-> ExampleEmbedded, sources |-> <<SrcA, SrcB, SrcC>>]

\* C2: scrape returns CAPTCHA_REQUIRED exactly when, after a successful
\* navigation, the scraper is headless and detect_captcha returned true; in
\* interactive mode a detected CAPTCHA leads into the readiness loop.
C2_CaptchaRequiredIffHeadlessDetected ==
    /\ (result.error = "CAPTCHA_REQUIRED") <=> (headless /\ detected = "yes")
    /\ (result.error = "CAPTCHA_REQUIRED") => (pc = "done" /\ endStage = "detect")
    /\ (detected = "yes" /\ ~headless) => (pc = "wait" \/ polls > 0)

C2_Witness ==
    /\ pc = "done"
    /\ headless
    /\ pageUrl = UrlSorryIndex
    /\ result = CaptchaRequired

\* C3: a readiness poll that meets the closed page ends scrape at once with
\* BROWSER_CLOSED_BY_USER: the loop variable does not advance, the harvester
\* has not been and is never invoked, and nothing happens after the return.
C3_ClosedDuringPollingEndsScrape ==
    [][ /\ (pc = "wait" /\ pageClosed /\ polls' = polls + 1) =>
              /\ pc' = "done"
              /\ result' = BrowserClosed
              /\ endStage' = "wait"
              /\ i' = i
              /\ harvestCalls' = 0
        /\ (pc = "done") =>
              /\ polls' = polls
              /\ harvestCalls' = harvestCalls
              /\ result' = result ]_vars

C3_Witness ==
    /\ pc = "done"
    /\ endStage = "wait"
    /\ result = BrowserClosed
    /\ polls = 3
    /\ i = 2
    /\ harvestCalls = 0

\* C4: in every run of scrape in which a page operation (navigation, a
\* detector read, a readiness poll, the harvester invocation) met the closed
\* page, the returned result is BROWSER_CLOSED_BY_USER.
C4_TerminationHasPriority ==
    (pc = "done" /\ opOnClosed) => result = BrowserClosed

\* C5: when the readiness loop has run all ai_wait_timeout iterations
\* without finding an AI-content marker, scrape returns no error for that
\* reason but goes on to invoke the harvester.
C5_ReadinessTimeoutIsSoft ==
    (i = ai_wait_timeout) =>
        /\ ~ai_ready
        /\ polls = ai_wait_timeout
        /\ \/ pc = "harvest"
           \/ pc = "done" /\ harvestCalls = 1 /\ endStage = "harvest"

C5_Witness ==
    /\ i = ai_wait_timeout
    /\ pc = "done"
    /\ harvestCalls = 1
    /\ result = Success

HasUnusualTrafficPhrase(t) ==
    \E indicator \in unusual_traffic_indicators : Contains(Lower(t), indicator)

IsBlockAddress(u) == Contains(u, <<"/sorry", "/index">>)

\* C6: when the body text contains, in any letter case, an unusual-traffic
\* phrase, detect_captcha returns true, whatever the address, the length of
\* the text and the CAPTCHA widget elements are.
C6_UnusualTrafficTextDetected ==
    (dpc = "out" /\ dReads.body2.ok /\ HasUnusualTrafficPhrase(dReads.body2.val))
        => (dOut.value /\ ~dOut.raised)

C6_Witness ==
    /\ dpc = "out"
    /\ dReads.body2 = ReadOk(<<"Our systems have detected", "filler">>)
    /\ dReads.url = ReadOk(UrlSearch)
    /\ dReads.sel = NoWidget
    /\ dOut.value

\* C7: when the page address contains /sorry/index, detect_captcha returns
\* true, also with an empty body text and whatever the other layers see.
C7_BlockAddressDetected ==
    (dpc = "out" /\ dReads.url.ok /\ IsBlockAddress(dReads.url.val))
        => (dOut.value /\ ~dOut.raised)

C7_Witness ==
    /\ dpc = "out"
    /\ dReads.url = ReadOk(UrlSorryIndexDe)
    /\ dReads.body2 = ReadOk(<<>>)
    /\ dReads.body3 = ReadOk(<<>>)
    /\ dReads.sel = NoWidget
    /\ dOut.value

FailedReadsFindNothing(rd) ==
    [url   |-> IF rd.url.ok THEN rd.url ELSE ReadOk(<<>>),
     body2 |-> IF rd.body2.ok THEN rd.body2 ELSE ReadOk(<<>>),
     body3 |-> IF rd.body3.ok THEN rd.body3 ELSE ReadOk(<<>>),
     sel   |-> [k \in 1..3 |-> IF rd.sel[k] = "raise" THEN "none" ELSE rd.sel[k]]]

\* C9: detect_captcha never raises; a read that fails makes its layer find
\* nothing, the next layers are still evaluated, and the boolean returned
\* is the one returned when the failed reads had found nothing.
C9_DetectorNeverRaises ==
    dpc = "out" =>
        /\ ~dOut.raised
        /\ dOut.value = detect_captcha(FailedReadsFindNothing(dReads)).value

C9_Witness ==
    /\ dpc = "out"
    /\ ~dReads.url.ok
    /\ ~dReads.body2.ok
    /\ ~dReads.body3.ok
    /\ dReads.sel = <<"raise", "raise", "found">>
    /\ dOut.value
    /\ ~dOut.raised

\* a group that must contribute nothing: it has no source, or its marker
\* token does not occur in the text handed to _embed_citations
MustNotContribute(citation) ==
    \/ citation.sources = <<>>
    \/ ~Contains(markdown, Marker(citation.marker_id))

\* C10: a group with empty sources, and a group whose marker token does not
\* occur in the text, does not advance the footnote counter
\* (len(citation_sources)) and appends nothing to the returned sources.
C10_OnlySourcedPresentGroupsContribute ==
    epc = "out" =>
        /\ \A k \in 1..Len(citations) :
              MustNotContribute(SortDesc(citations)[k]) =>
                  embTrace[k + 1].sources = embTrace[k].sources
        /\ embOut.sources = embTrace[Len(citations) + 1].sources

C10_Witness ==
    /\ epc = "out"
    /\ Len(citations) = 2
    /\ citations[1].sources # <<>>
    /\ ~Contains(markdown, Marker(citations[1].marker_id))
    /\ citations[2].sources # <<>>
    /\ Contains(markdown, Marker(citations[2].marker_id))
    /\ embOut.sources = citations[2].sources


(***************************************************************************)
(* C11 and C12: the truncation and the idempotence of the post-processing. *)
(***************************************************************************)
\* the first occurrence of sub in s is followed by more text
FollowedByText(s, sub) == Len(BeforeFirst(s, sub)) + Len(sub) < Len(s)

\* C11: for every converted text that contains a disclaimer phrase followed
\* by additional text, the post-processed document ends strictly before that
\* phrase: it does not contain the phrase, and it is the post-processing of
\* the text before the phrase, so nothing that followed the phrase is in it.
C11_OutputEndsBeforeDisclaimer ==
    pRuns = 1 =>
        \A k \in 1..Len(cut_off_markers) :
            (Contains(pIn, cut_off_markers[k]) /\ FollowedByText(pIn, cut_off_markers[k])) =>
                /\ ~Contains(pDoc, cut_off_markers[k])
                /\ pDoc = postprocess(BeforeFirst(pIn, cut_off_markers[k]))

\* C12: the post-processing is idempotent: the second pass over a document
\* leaves the result of the first pass as it is.
C12_PostPassIdempotent == pRuns = 2 => pDoc = postprocess(pIn)

(***************************************************************************)
(* C13, C17, C18, C19: the injected script.                                *)
(***************************************************************************)
\* the ids of the markers in a content, in document order
MarkerIdsIn(dom) ==
    LET ms == SelectSeq(dom, LAMBDA x : x.kind = "marker")
    IN  [k \in 1..Len(ms) |-> ms[k].n]

\* the marker ids of the groups, in the order the groups were pushed
GroupIds(cs) == [k \in 1..Len(cs) |-> cs[k].marker_id]

\* number of places of the sequence that hold x
CountOf(sq, x) == Cardinality({k \in 1..Len(sq) : sq[k] = x})

\* the script has ended with the not-found error of the main container
MainColNotFound == ~mainCol /\ hpc = "returned" /\ hret.kind = "data"

\* C13 as stated: the error text is "main content container not found"
C13_ErrorTextAsStated ==
    MainColNotFound =>
        "error" \in DOMAIN hret /\ hret.error = "main content container not found"

\* C13: when the main container is absent the script fails with the error
\* 'main-col not found (AI Overview missing?)'; scrape returns success=false
\* with that error, which is neither CAPTCHA_REQUIRED nor
\* BROWSER_CLOSED_BY_USER; no marker is inserted and no button is clicked.
C13_MainColMissingFails ==
    /\ ~mainCol =>
          /\ MarkerIdsIn(hdom) = <<>>
          /\ markerIndex = 0
          /\ clicks = <<>>
          /\ allCitations = <<>>
    /\ MainColNotFound =>
          /\ hret = [kind |-> "data", error |-> MainColMissing]
          /\ pc = "done" =>
                /\ result = [success |-> FALSE, error |-> MainColMissing]
                /\ result # CaptchaRequired
                /\ result # BrowserClosed

C13_Witness ==
    /\ ~mainCol
    /\ Len(buttons) = MaxTriggers
    /\ isVisible(buttons[1])
    /\ pc = "done"
    /\ result = Failure(MainColMissing)

\* C17: the outcome of the script is all or nothing.  After an exception
\* scrape has one error result and neither html nor groups; a returned
\* payload has, for every group, exactly one marker with the group's id in
\* its html (groups without sources included), and no other marker.
C17_HarvestAllOrNothing ==
    /\ hret.kind = "exception" =>
          /\ DOMAIN hret = {"kind"}
          /\ pc = "done" =>
                /\ ~result.success
                /\ result.error \in {"JS Injection failed", "BROWSER_CLOSED_BY_USER"}
    /\ (hret.kind = "data" /\ "error" \in DOMAIN hret) =>
          /\ DOMAIN hret = {"kind", "error"}
          /\ pc = "done" => ~result.success
    /\ (hret.kind = "data" /\ "error" \notin DOMAIN hret) =>
          /\ DOMAIN hret = {"kind", "html", "citations"}
          /\ \A k \in 1..Len(hret.citations) :
                /\ CountOf(MarkerIdsIn(hret.html), hret.citations[k].marker_id) = 1
                /\ CountOf(GroupIds(hret.citations), hret.citations[k].marker_id) = 1
          /\ \A q \in 1..Len(MarkerIdsIn(hret.html)) :
                CountOf(GroupIds(hret.citations), MarkerIdsIn(hret.html)[q]) = 1

\* a payload of MaxTriggers groups, one of them without sources
C17_Witness ==
    /\ hret.kind = "data"
    /\ "html" \in DOMAIN hret
    /\ Len(hret.citations) = MaxTriggers
    /\ \E k \in 1..Len(hret.citations) : hret.citations[k].sources = <<>>
    /\ \E k \in 1..Len(hret.citations) : hret.citations[k].sources # <<>>
    /\ pc = "done"
    /\ result.success

\* the visible buttons before button k
VisibleBefore(k) == {j \in 1..(k - 1) : isVisible(buttons[j])}

\* C18: marker ids go to visible buttons only, in document order, as
\* 0, 1, 2, ... without gaps: the markers of the content carry the ids
\* 0 .. markerIndex - 1 in ascending order, each marker stands behind a
\* visible button the loop has reached, its id is the number of visible
\* buttons before that button, and no hidden button has a marker behind it.
C18_MarkerIdsVisibleNoGaps ==
    /\ MarkerIdsIn(hdom) = [k \in 1..markerIndex |-> k - 1]
    /\ \A q \in 1..Len(hdom) :
          hdom[q].kind = "marker" =>
              /\ q > 1
              /\ hdom[q - 1].kind = "btn"
              /\ hdom[q - 1].n <= bi
              /\ isVisible(buttons[hdom[q - 1].n])
              /\ hdom[q].n = Cardinality(VisibleBefore(hdom[q - 1].n))
    /\ \A q \in 1..Len(hdom) :
          (hdom[q].kind = "btn" /\ ~isVisible(buttons[hdom[q].n])) =>
              (q = Len(hdom) \/ hdom[q + 1].kind = "btn")
    /\ GroupIds(allCitations) \in { [k \in 1..m |-> k - 1] : m \in {markerIndex - 1, markerIndex} }

\* a hidden button before a visible one: the visible one has the marker
\* with the id that counts the visible buttons only
C18_Witness ==
    /\ hpc = "returned"
    /\ hret.kind = "data"
    /\ "html" \in DOMAIN hret
    /\ Len(buttons) = MaxTriggers
    /\ ~isVisible(buttons[1])
    /\ isVisible(buttons[Len(buttons)])
    /\ MarkerIdsIn(hret.html) # <<>>

\* C19: no premature or stale extraction: whenever the group of a clicked
\* button is extracted, the side panel shows the links that the click on
\* that button brought, for every timing of the panel.
C19_NoPrematureOrStaleExtraction ==
    \A g \in 1..Len(readFrom) :
        readFrom[g].clicked => readFrom[g].owner = readFrom[g].trigger

(***************************************************************************)
(* C20: the footnote numbers and the returned sources.                     *)
(***************************************************************************)
\* iteration k of the loop replaced a marker
Contributes(k) == embTrace[k + 1] # embTrace[k]

\* the footnote numbers that iteration k wrote in place of its marker
WrittenBy(k) ==
    LET g == SortDesc(citations)[k]
        at == Len(BeforeFirst(embTrace[k].md, Marker(g.marker_id))) + 1
    IN  SubSeq(FootnoteSeq(embTrace[k + 1].md, at), 1, Len(g.sources))

\* C20: the footnote numbers in the text returned by _embed_citations are
\* exactly 1..len(sources), each once, and the j-th number written in place
\* of a group's marker is the position, in the returned sources, of the j-th
\* source of that group.
C20_FootnotesNumberTheSources ==
    epc = "out" =>
        /\ Len(FootnoteSeq(embOut.md, 1)) = Len(embOut.sources)
        /\ {FootnoteSeq(embOut.md, 1)[k] : k \in 1..Len(FootnoteSeq(embOut.md, 1))}
               = 1..Len(embOut.sources)
        /\ \A k \in 1..Len(citations) :
              Contributes(k) =>
                  /\ Len(WrittenBy(k)) = Len(SortDesc(citations)[k].sources)
                  /\ \A j \in 1..Len(WrittenBy(k)) :
                        /\ WrittenBy(k)[j] \in 1..Len(embOut.sources)
                        /\ embOut.sources[WrittenBy(k)[j]] = SortDesc(citations)[k].sources[j]

\* two groups contribute, the second of them two sources
C20_Witness ==
    /\ epc = "out"
    /\ markdown = ExampleText
    /\ citations = ExampleGroups
    /\ Contributes(1) /\ Contributes(2)
    /\ FootnoteSeq(embOut.md, 1) = <<3, 1, 2>>
    /\ embOut.sources = <<SrcB, SrcC, SrcA>>

(***************************************************************************)
(* C15: the navigation address.  C16: the exit codes.                      *)
(***************************************************************************)
RECURSIVE UpTo(_, _, _)
\* the pieces of s from position p up to the first piece that is in stops
UpTo(s, p, stops) ==
    IF p > Len(s) \/ s[p] \in stops THEN <<>> ELSE <<s[p]>> \o UpTo(s, p + 1, stops)

\* the value of the parameter q as the receiver of the address reads it:
\* it ends at the next & (the next parameter) or # (the fragment)
QValue(u) == UpTo(u, Len(SearchPrefix) + 1, {"&", "#"})

HexDigits == {"4", "1", "a"}

\* the character of a percent escape: %41 is A, the other escapes of the
\* alphabet are characters that no query of the model holds
PctChar(h1, h2) == IF <<h1, h2>> = <<"4", "1">> THEN "A" ELSE "other"

RECURSIVE UrlDecode(_, _)
\* URL-decoding of a parameter value from position p on: + is a space, %XX
\* the character with that code; a non-ASCII character comes back as it
\* was, the browser having escaped it
UrlDecode(s, p) ==
    IF p > Len(s) THEN <<>>
    ELSE IF s[p] = "+" THEN <<" ">> \o UrlDecode(s, p + 1)
    ELSE IF s[p] = "%" /\ p + 2 <= Len(s) /\ s[p + 1] \in HexDigits /\ s[p + 2] \in HexDigits
         THEN <<PctChar(s[p + 1], s[p + 2])>> \o UrlDecode(s, p + 3)
    ELSE <<s[p]>> \o UrlDecode(s, p + 1)

\* C15: the address is <search endpoint>?udm=50&q=<url-encoded query>:
\* decoding the parameter q of the address gives back the query.
C15_QueryRoundTrips ==
    upc = "out" =>
        /\ SubSeq(navUrl, 1, Len(SearchPrefix)) = SearchPrefix
        /\ UrlDecode(QValue(navUrl), 1) = navQuery

\* C16: the exit code is determined by the outcome: 130 on user interrupt,
\* 1 on an unexpected exception, else 0 when scrape succeeded, 2 for
\* CAPTCHA_REQUIRED, 3 for BROWSER_CLOSED_BY_USER, 1 for every other failed
\* result.
C16_ExitCodeByOutcome ==
    mpc = "exited" =>
        exitCode = IF sigint THEN 130
                   ELSE IF unexpected THEN 1
                   ELSE IF result.success THEN 0
                   ELSE IF result.error = "CAPTCHA_REQUIRED" THEN 2
                   ELSE IF result.error = "BROWSER_CLOSED_BY_USER" THEN 3
                   ELSE 1

(***************************************************************************)
(* C14: termination.                                                       *)
(***************************************************************************)
\* C14: every run of scrape ends with a result; the readiness loop makes at
\* most 300 polls; the wait after a click lasts at most the 300 ms ceiling
\* (plus the 50 ms pause), goes on only while the link count is the one
\* from before the click, and ends when the count differs or the ceiling is
\* reached.
C14_ScrapeTerminates ==
    /\ <>(pc = "done" /\ result # NoResult)
    /\ [](polls <= ai_wait_timeout /\ waited <= WaitCeiling + SettleDelay)
    /\ [][ /\ (hpc = "wait" /\ hpc' = "wait" /\ waited' # waited) =>
                (waited < WaitCeiling /\ countVisibleLinks = beforeCount)
           /\ (hpc = "wait" /\ hpc' = "settle") =>
                (waited >= WaitCeiling \/ countVisibleLinks # beforeCount) ]_vars

\* scrape has ended after every button was waited for, the last wait up to
\* the ceiling
C14_Witness ==
    /\ pc = "done"
    /\ result.success
    /\ Len(clicks) = MaxTriggers
    /\ waited = WaitCeiling + SettleDelay

(***************************************************************************)
(* C21: the sweep of the marker tokens.                                    *)
(***************************************************************************)
\* C21: the text returned by _embed_citations holds no marker token
\* [CITE-<digits>], whatever the text and the groups were.
C21_NoMarkerTokenRemains ==
    epc = "out" => MarkerSeq(embOut.md, 1) = <<>>
(* C22: the cut at the disclaimer. *)
\* the position in cut_off_markers of the first phrase that occurs in s
FirstListed(s) ==
    CHOOSE k \in 1..Len(cut_off_markers) :
        /\ Contains(s, cut_off_markers[k])
        /\ \A j \in 1..(k - 1) : ~Contains(s, cut_off_markers[j])

\* one cut, at the first occurrence of the first listed phrase that occurs
SingleCut(s) ==
    IF \E k \in 1..Len(cut_off_markers) : Contains(s, cut_off_markers[k])
    THEN BeforeFirst(s, cut_off_markers[FirstListed(s)])
    ELSE s

\* C22: the truncation makes a single cut, at the first occurrence of the
\* first phrase of the list that occurs in the text; everything before that
\* position is kept, a later-listed phrase in it included.
C22_TruncationIsSingleCut ==
    pRuns > 0 => pCut.after = SingleCut(pCut.before)

(* C23: the order of the stages of scrape. *)
\* C23: in every run of scrape the script is injected at most once, and only
\* after the navigation succeeded, the CAPTCHA check did not return
\* CAPTCHA_REQUIRED and the readiness loop ended by a match or by using up
\* its budget; the CAPTCHA check and the readiness loop leave the document
\* as it is, and a run that returned from the navigation, the CAPTCHA check
\* or the readiness loop never injected the script.
C23_HarvestOnceAfterStages ==
    /\ [](harvestCalls <= 1)
    /\ [][harvestCalls' # harvestCalls =>
             /\ harvestCalls' = 1
             /\ pc = "harvest"
             /\ pageUrl # UrlBlank
             /\ detected \in {"yes", "no"}
             /\ ~(detected = "yes" /\ headless)
             /\ (ai_ready \/ i = ai_wait_timeout)]_vars
    /\ [][(Detect \/ Poll) => UNCHANGED <<pageUrl, pageBody, pageSel>>]_vars
    /\ [](endStage \in {"goto", "detect", "wait"} => harvestCalls = 0)

\* the script was injected in a visible browser after a CAPTCHA was detected
\* and the answer appeared
C23_Witness ==
    /\ harvestCalls = 1
    /\ endStage = "harvest"
    /\ detected = "yes"
    /\ ~headless
    /\ ai_ready

(* C24: the sources section. *)
\* the title an entry shows by the statement: 'Link' for a source without a
\* title, the empty title included
ShownTitle(source) ==
    IF "title" \in DOMAIN source /\ source.title # <<>> THEN source.title ELSE <<"Link">>

\* the n-th entry by the statement: "[n] <title>", then the URL on the next line
StatedEntry(sources, n) ==
    <<"[">> \o ToDigits(n) \o <<"]", " ">> \o ShownTitle(sources[n])
        \o <<"  \n", sources[n].url, "\n\n">>

RECURSIVE StatedEntries(_, _)
StatedEntries(sources, n) ==
    IF n = 0 THEN <<>> ELSE StatedEntries(sources, n - 1) \o StatedEntry(sources, n)

\* C24: with a non-empty sources list the document ends with the divider and
\* one entry per source in list order, numbered from 1, "[n] <title>" and the
\* URL on the next line, 'Link' standing for a missing or empty title; with
\* an empty list nothing is appended.
C24_SourcesSectionAsStated ==
    bpc = "out" =>
        bOut = IF bSources = <<>> THEN bMd
               ELSE bMd \o SourcesHeader \o StatedEntries(bSources, Len(bSources))

(* C25: the cleanup. *)
\* the closing calls of the attributes start() has set
DueCalls ==
    (IF selfPage THEN {"page.close"} ELSE {})
        \cup (IF selfCtx THEN {"ctx.close"} ELSE {})
        \cup (IF selfPw THEN {"pw.stop"} ELSE {})

\* C25: on every way out of main after the scraper was created (success, a
\* failed result with exit code 1, 2 or 3, an exception of start() or
\* scrape(), a user interrupt) stop() is eventually called, once and before
\* the process exits; and stop() makes each of the closing calls of the
\* page, the context and the driver that start() has set up, whether or
\* not an earlier one raised.
C25_StopAlwaysRunsAndTriesAll ==
    /\ <>(stopCalls = 1)
    /\ <>(spc = "exited")
    /\ [](sExit # -1 ~> stopCalls = 1)
    /\ [](stopCalls <= 1)
    /\ [](spc = "exited" => (stopCalls = 1 /\ sExit # -1 /\ tried = DueCalls))

\* the user interrupted scrape, page.close() raised in stop(), and the
\* context and the driver were closed all the same
C25_Witness ==
    /\ spc = "exited"
    /\ sOutcome = "interrupt"
    /\ "page.close" \in raised
    /\ tried = {"page.close", "ctx.close", "pw.stop"}

====
